---- MODULE Spec2Model ----
(***************************************************************************)
(* The changeset actions of the katello command-line client                *)
(* (katello/client/core/changeset.py): create, update, apply and promote,  *)
(* run one after the other on the same action objects, as the shell does.  *)
(* Every lookup and every API call is an entry of the invocation's call    *)
(* log; lookups and calls may fail, which raises out of run.               *)
(***************************************************************************)
EXTENDS Integers, Sequences, FiniteSets, TLC

\* ------------------------------------------------------------------ bounds
\* content-view options on one update command line
MaxItems == 2
\* content views a command line can refer to
NumViews == 2

\* --------------------------------------------------------------- constants
EX_OK == 0
EX_DATAERR == 65
PROMOTION == "promotion"
DELETION == "deletion"

Views == 1..NumViews
Directions == {"add", "remove"}
content_types == <<"content_view", "content_view_id", "content_view_label">>

\* the six option destinations: 'add_' + ct and 'remove_' + ct
Dest(action, ct) == [action |-> action, ct |-> ct]
Dests == {Dest(a, content_types[i]) : a \in Directions, i \in 1..Len(content_types)}

Commands == {"create", "update", "apply", "promote"}

VARIABLES
    pc,          \* position of the running invocation
    cmd,         \* the action invoked
    opts,        \* plain options of the invocation (required ones present, type flags)
    values,      \* parser.values for the six callback options (0 is None)
    given,       \* the content-view options of this command line, in order
    items,       \* UpdateContent.items, kept by the action object between invocations
    litems,      \* the local `items` of UpdateContent.run
    cset,        \* the record get_changeset returned
    builder_env, \* PatchItemBuilder.env_name
    todo,        \* what the running loop has still to go through
    addPatch,    \* addPatch['content_views']
    removePatch, \* removePatch['content_views']
    calls,       \* lookups and API calls issued by this invocation, in order
    task,        \* status of the task the apply call created
    ret,         \* how the invocation ended
    stale        \* UpdateContent.items held items when this invocation began

vars == <<pc, cmd, opts, values, given, items, litems, cset, builder_env, todo,
          addPatch, removePatch, calls, task, ret, stale>>

\* ------------------------------------------------------------ result values
NotFinished == [kind |-> "running", code |-> -1, err |-> ""]
Return(code) == [kind |-> "return", code |-> code, err |-> ""]
ReturnNone == [kind |-> "returnNone", code |-> -1, err |-> ""]
Raise(err) == [kind |-> "raise", code |-> -1, err |-> err]
UsageError == [kind |-> "usage", code |-> -1, err |-> "option validation"]

\* ------------------------------------------------------------- the server
NoEnv == ""
EnvRecord == [name |-> "Dev", prior |-> "Library"]

NoChangeset == [id |-> 0, action_type |-> "", has_type |-> FALSE, type |-> ""]
\* the records get_changeset can return: the action type is under 'action_type';
\* a 'type' key may be there or not
Changesets ==
    {[id |-> 1, action_type |-> t, has_type |-> h, type |-> IF h THEN t ELSE ""] :
        t \in {PROMOTION, DELETION}, h \in BOOLEAN}

\* the id of the content view a reference resolves to
ViewId(item) == 100 + item.val

NoTask == "none"
Running == {"pending", "running"}
Terminal == {"succeeded", "failed"}

Call(api, key, val, env, ok) == [api |-> api, key |-> key, val |-> val, env |-> env, ok |-> ok]

\* ------------------------------------------------------------------ helpers
RECURSIVE SelectDest(_, _)
\* the values given for one destination, in command-line order
SelectDest(args, d) ==
    IF args = <<>> THEN <<>>
    ELSE IF Head(args).dest = d
         THEN <<Head(args).val>> \o SelectDest(Tail(args), d)
         ELSE SelectDest(Tail(args), d)

\* --------------------------------------------------- UpdateContent's items
ItemKey(ct) ==
    IF ct = "content_view" THEN "view_name"
    ELSE IF ct = "content_view_label" THEN "view_label"
    ELSE IF ct = "content_view_id" THEN "view_id"
    ELSE "name"

\* _store_item: append the keyed value to the destination's list
store_item(its, d, value) ==
    [its EXCEPT ![d] = Append(@, [key |-> ItemKey(d.ct), val |-> value])]

reset_items == [d \in Dests |-> <<>>]

NoValues == [d \in Dests |-> 0]
NoOpts == [required |-> FALSE, type_promotion |-> FALSE, type_deletion |-> FALSE]

Init ==
    /\ pc = "idle"
    /\ cmd = "none"
    /\ opts = NoOpts
    /\ values = NoValues
    /\ given = <<>>
    /\ items = <<>>
    /\ litems = <<>>
    /\ cset = NoChangeset
    /\ builder_env = NoEnv
    /\ todo = <<>>
    /\ addPatch = <<>>
    /\ removePatch = <<>>
    /\ calls = <<>>
    /\ task = NoTask
    /\ ret = NotFinished
    /\ stale = FALSE

\* ------------------------------------------------------------ the dispatcher
HoldsItems(its) == \E d \in DOMAIN its : its[d] # <<>>

\* the shell hands a command line to an action object
Main ==
    /\ pc \in {"idle", "done"}
    /\ \E c \in Commands, r \in BOOLEAN, p \in BOOLEAN, d \in BOOLEAN :
        /\ (c # "create") => (~p /\ ~d)
        /\ cmd' = c
        /\ opts' = [required |-> r, type_promotion |-> p, type_deletion |-> d]
    /\ pc' = "setup"
    /\ values' = NoValues
    /\ given' = <<>>
    /\ litems' = <<>>
    /\ cset' = NoChangeset
    /\ builder_env' = NoEnv
    /\ todo' = <<>>
    /\ addPatch' = <<>>
    /\ removePatch' = <<>>
    /\ calls' = <<>>
    /\ task' = NoTask
    /\ ret' = NotFinished
    /\ stale' = HoldsItems(items)
    /\ UNCHANGED items

\* what setup_parser leaves in self.items
setup_parser_items(its) == reset_items

SetupParser ==
    /\ pc = "setup"
    /\ pc' = "parse"
    /\ items' = IF cmd = "update" THEN setup_parser_items(items) ELSE items
    /\ UNCHANGED <<cmd, opts, values, given, litems, cset, builder_env, todo,
                   addPatch, removePatch, calls, task, ret, stale>>

\* the option parser meets one --add_.../--remove_... option and calls back
StoreItem ==
    /\ pc = "parse"
    /\ cmd = "update"
    /\ Len(given) < MaxItems
    /\ \E d \in Dests, v \in Views :
        /\ items' = store_item(items, d, v)
        /\ values' = [values EXCEPT ![d] = v]
        /\ given' = Append(given, [dest |-> d, val |-> v])
    /\ UNCHANGED <<pc, cmd, opts, litems, cset, builder_env, todo,
                   addPatch, removePatch, calls, task, ret, stale>>

exists(vals, d) == vals[d] # 0

\* validator.mutually_exclude: at most one of the group is present
mutually_exclude(vals, group) == Cardinality({d \in group : exists(vals, d)}) <= 1

\* check_options as it would be with the id options left out of the exclusion
ExcludeGroupsWithoutId ==
    {{Dest(a, "content_view"), Dest(a, "content_view_label")} : a \in Directions}

\* the groups UpdateContent.check_options excludes mutually
ExcludeGroups ==
    {{Dest(a, "content_view"), Dest(a, "content_view_label"), Dest(a, "content_view_id")} :
        a \in Directions}

check_options(c, o, vals) ==
    /\ o.required
    /\ (c = "update") => \A g \in ExcludeGroups : mutually_exclude(vals, g)

FirstPc(c) ==
    IF c = "create" THEN "c_run"
    ELSE IF c = "update" THEN "u_start"
    ELSE IF c = "apply" THEN "a_get_changeset"
    ELSE "p_get_changeset"

\* the command line is parsed: validate, then run or leave with a usage error
CheckOptions ==
    /\ pc = "parse"
    /\ IF check_options(cmd, opts, values)
       THEN pc' = FirstPc(cmd) /\ ret' = ret
       ELSE pc' = "done" /\ ret' = UsageError
    /\ UNCHANGED <<cmd, opts, values, given, items, litems, cset, builder_env, todo,
                   addPatch, removePatch, calls, task, stale>>

\* csType as it would be with the deletion branch missing
CreateTypeDefault(o) == PROMOTION

\* ------------------------------------------------------------------- Create
\* csType of Create.run
CreateType(o) ==
    IF o.type_promotion THEN PROMOTION
    ELSE IF o.type_deletion THEN DELETION
    ELSE PROMOTION

DuplicateTypeFlags(o) == o.type_promotion /\ o.type_deletion

CreateRun ==
    /\ pc = "c_run"
    /\ IF DuplicateTypeFlags(opts)
       THEN pc' = "done" /\ ret' = Raise("OptionValueError")
       ELSE pc' = "c_get_environment" /\ ret' = ret
    /\ UNCHANGED <<cmd, opts, values, given, items, litems, cset, builder_env, todo,
                   addPatch, removePatch, calls, task, stale>>

CreateGetEnvironment ==
    /\ pc = "c_get_environment"
    /\ \E ok \in BOOLEAN :
        /\ calls' = Append(calls, Call("get_environment", EnvRecord.name, 0, NoEnv, ok))
        /\ IF ok THEN pc' = "c_create" /\ ret' = ret
           ELSE pc' = "done" /\ ret' = Raise("NotFound")
    /\ UNCHANGED <<cmd, opts, values, given, items, litems, cset, builder_env, todo,
                   addPatch, removePatch, task, stale>>

CreateCall ==
    /\ pc = "c_create"
    /\ \E ok \in BOOLEAN :
        /\ calls' = Append(calls, Call("create", CreateType(opts), 0, NoEnv, ok))
        /\ ret' = IF ok THEN Return(EX_OK) ELSE Raise("ApiError")
    /\ pc' = "done"
    /\ UNCHANGED <<cmd, opts, values, given, items, litems, cset, builder_env, todo,
                   addPatch, removePatch, task, stale>>

\* run as it would be if each patch were submitted as soon as it is built
UpdateNextEager(p) ==
    IF p = "u_start" THEN "u_get_changeset"
    ELSE IF p = "u_get_changeset" THEN "u_update"
    ELSE IF p = "u_update" THEN "u_add_builder"
    ELSE IF p = "u_add_builder" THEN "u_add_build"
    ELSE IF p = "u_add_build" THEN "u_add_content"
    ELSE IF p = "u_add_content" THEN "u_remove_builder"
    ELSE IF p = "u_remove_builder" THEN "u_remove_build"
    ELSE IF p = "u_remove_build" THEN "u_remove_content"
    ELSE "u_return"

\* run as it would be with the two update_content statements swapped
UpdateNextRemoveFirst(p) ==
    IF p = "u_start" THEN "u_get_changeset"
    ELSE IF p = "u_get_changeset" THEN "u_update"
    ELSE IF p = "u_update" THEN "u_add_builder"
    ELSE IF p = "u_add_builder" THEN "u_add_build"
    ELSE IF p = "u_add_build" THEN "u_remove_builder"
    ELSE IF p = "u_remove_builder" THEN "u_remove_build"
    ELSE IF p = "u_remove_build" THEN "u_remove_content"
    ELSE IF p = "u_remove_content" THEN "u_add_content"
    ELSE "u_return"

\* ------------------------------------------------------------------- Update
\* the statement that follows each statement of UpdateContent.run
UpdateNext(p) ==
    IF p = "u_start" THEN "u_get_changeset"
    ELSE IF p = "u_get_changeset" THEN "u_update"
    ELSE IF p = "u_update" THEN "u_add_builder"
    ELSE IF p = "u_add_builder" THEN "u_add_build"
    ELSE IF p = "u_add_build" THEN "u_remove_builder"
    ELSE IF p = "u_remove_builder" THEN "u_remove_build"
    ELSE IF p = "u_remove_build" THEN "u_add_content"
    ELSE IF p = "u_add_content" THEN "u_remove_content"
    ELSE "u_return"

\* what the loop of a statement goes through when the statement is entered
EnterTodo(p, add, remove) ==
    IF p = "u_add_content" THEN add
    ELSE IF p = "u_remove_content" THEN remove
    ELSE <<>>

\* run as it would be without its reset_items call
run_keep_items(its) == its

\* self.items as the first two statements of run leave it
run_reset_items(its) == reset_items

UStart ==
    /\ pc = "u_start"
    /\ litems' = items
    /\ items' = run_reset_items(items)
    /\ pc' = UpdateNext(pc)
    /\ UNCHANGED <<cmd, opts, values, given, cset, builder_env, todo,
                   addPatch, removePatch, calls, task, ret, stale>>

UGetChangeset ==
    /\ pc = "u_get_changeset"
    /\ \E rec \in Changesets, ok \in BOOLEAN :
        /\ calls' = Append(calls, Call("get_changeset", "name", 0, EnvRecord.name, ok))
        /\ IF ok THEN cset' = rec /\ pc' = UpdateNext(pc) /\ ret' = ret
           ELSE cset' = cset /\ pc' = "done" /\ ret' = Raise("NotFound")
    /\ UNCHANGED <<cmd, opts, values, given, items, litems, builder_env, todo,
                   addPatch, removePatch, task, stale>>

\* self.update: the rename/describe call
UUpdate ==
    /\ pc = "u_update"
    /\ \E ok \in BOOLEAN :
        /\ calls' = Append(calls, Call("update", "", cset.id, NoEnv, ok))
        /\ IF ok THEN pc' = UpdateNext(pc) /\ ret' = ret
           ELSE pc' = "done" /\ ret' = Raise("ApiError")
    /\ UNCHANGED <<cmd, opts, values, given, items, litems, cset, builder_env, todo,
                   addPatch, removePatch, task, stale>>

\* PatchItemBuilder.__init__: the environment the builder keeps
BuilderEnv(type_in, env) == IF type_in = DELETION THEN env.name ELSE env.prior

\* build_patch as it would be with the by-id list left out
build_patch_items_without_id(action, its) ==
    its[Dest(action, "content_view")] \o its[Dest(action, "content_view_label")]

\* build_patch: the items it resolves, in this order
build_patch_items(action, its) ==
    its[Dest(action, "content_view")] \o its[Dest(action, "content_view_label")]
        \o its[Dest(action, "content_view_id")]

DirOf(p) == IF p \in {"u_add_builder", "u_add_build", "u_add_content"} THEN "add" ELSE "remove"

\* AddPatchItemBuilder / RemovePatchItemBuilder are constructed
UBuilder ==
    /\ pc \in {"u_add_builder", "u_remove_builder"}
    /\ \E ok \in BOOLEAN :
        /\ calls' = Append(calls, Call("get_environment", EnvRecord.name, 0, NoEnv, ok))
        /\ IF ok
           THEN /\ builder_env' = BuilderEnv(cset.action_type, EnvRecord)
                /\ todo' = build_patch_items(DirOf(pc), litems)
                /\ pc' = UpdateNext(pc)
                /\ ret' = ret
           ELSE /\ builder_env' = builder_env
                /\ todo' = <<>>
                /\ pc' = "done"
                /\ ret' = Raise("NotFound")
    /\ addPatch' = IF pc = "u_add_builder" THEN <<>> ELSE addPatch
    /\ removePatch' = IF pc = "u_remove_builder" THEN <<>> ELSE removePatch
    /\ UNCHANGED <<cmd, opts, values, given, items, litems, cset, task, stale>>

\* the environment content_view_id hands to get_content_view
ContentViewLookupEnv(env_name) == NoEnv

\* the payload an item builder makes of a resolved view
content_view(action, id) ==
    [key |-> IF action = "add" THEN "content_view_id" ELSE "content_id", val |-> id]

\* one item of build_patch's list comprehension
UBuildItem ==
    /\ pc \in {"u_add_build", "u_remove_build"}
    /\ todo # <<>>
    /\ \E ok \in BOOLEAN :
        /\ calls' = Append(calls, Call("get_content_view", Head(todo).key, Head(todo).val,
                                       ContentViewLookupEnv(builder_env), ok))
        /\ IF ok
           THEN /\ addPatch' = IF pc = "u_add_build"
                               THEN Append(addPatch, content_view("add", ViewId(Head(todo))))
                               ELSE addPatch
                /\ removePatch' = IF pc = "u_remove_build"
                                  THEN Append(removePatch, content_view("remove", ViewId(Head(todo))))
                                  ELSE removePatch
                /\ todo' = Tail(todo)
                /\ pc' = pc
                /\ ret' = ret
           ELSE /\ UNCHANGED <<addPatch, removePatch>>
                /\ todo' = <<>>
                /\ pc' = "done"
                /\ ret' = Raise("NotFound")
    /\ UNCHANGED <<cmd, opts, values, given, items, litems, cset, builder_env, task, stale>>

\* one item of update_content's loop: add_content or remove_content
USubmitItem ==
    /\ pc \in {"u_add_content", "u_remove_content"}
    /\ todo # <<>>
    /\ \E ok \in BOOLEAN :
        /\ calls' = Append(calls, Call(IF pc = "u_add_content" THEN "add_content" ELSE "remove_content",
                                       Head(todo).key, Head(todo).val, NoEnv, ok))
        /\ IF ok THEN todo' = Tail(todo) /\ pc' = pc /\ ret' = ret
           ELSE todo' = <<>> /\ pc' = "done" /\ ret' = Raise("ApiError")
    /\ UNCHANGED <<cmd, opts, values, given, items, litems, cset, builder_env,
                   addPatch, removePatch, task, stale>>

\* a loop of run is through: on to the next statement
ULoopDone ==
    /\ pc \in {"u_add_build", "u_remove_build", "u_add_content", "u_remove_content"}
    /\ todo = <<>>
    /\ pc' = UpdateNext(pc)
    /\ todo' = EnterTodo(UpdateNext(pc), addPatch, removePatch)
    /\ UNCHANGED <<cmd, opts, values, given, items, litems, cset, builder_env,
                   addPatch, removePatch, calls, task, ret, stale>>

UReturn ==
    /\ pc = "u_return"
    /\ pc' = "done"
    /\ ret' = Return(EX_OK)
    /\ UNCHANGED <<cmd, opts, values, given, items, litems, cset, builder_env, todo,
                   addPatch, removePatch, calls, task, stale>>

\* Apply.run as it would be without the wait for the task
ApplyNextNoWait(p) ==
    IF p = "a_get_changeset" THEN "a_apply"
    ELSE IF p = "a_apply" THEN "a_evaluate"
    ELSE IF p = "a_wait" THEN "a_evaluate"
    ELSE "done"

\* -------------------------------------------------------------------- Apply
\* the statement that follows each statement of Apply.run
ApplyNext(p) ==
    IF p = "a_get_changeset" THEN "a_apply"
    ELSE IF p = "a_apply" THEN "a_wait"
    ELSE IF p = "a_wait" THEN "a_evaluate"
    ELSE "done"

\* Apply.run looks the changeset up (Promote.run has looked the same one up before)
AGetChangeset ==
    /\ pc = "a_get_changeset"
    /\ \E rec \in Changesets, ok \in BOOLEAN :
        /\ (cmd = "promote") => (rec = cset)
        /\ calls' = Append(calls, Call("get_changeset", "name", 0, EnvRecord.name, ok))
        /\ IF ok THEN cset' = rec /\ pc' = ApplyNext(pc) /\ ret' = ret
           ELSE cset' = cset /\ pc' = "done" /\ ret' = Raise("NotFound")
    /\ UNCHANGED <<cmd, opts, values, given, items, litems, builder_env, todo,
                   addPatch, removePatch, task, stale>>

\* self.api.apply: the server creates the task
AApply ==
    /\ pc = "a_apply"
    /\ \E ok \in BOOLEAN, s \in Running \cup Terminal :
        /\ calls' = Append(calls, Call("apply", "", cset.id, NoEnv, ok))
        /\ IF ok THEN task' = s /\ pc' = ApplyNext(pc) /\ ret' = ret
           ELSE task' = task /\ pc' = "done" /\ ret' = Raise("ApiError")
    /\ UNCHANGED <<cmd, opts, values, given, items, litems, cset, builder_env, todo,
                   addPatch, removePatch, stale>>

\* wait_for_async_task: one status query while the task is running; a query
\* that does not change the status leaves the state as it is
APoll ==
    /\ pc = "a_wait"
    /\ task \in Running
    /\ \E ok \in BOOLEAN, s \in {"running"} \cup Terminal :
        IF ok THEN task' = s /\ pc' = pc /\ ret' = ret
        ELSE task' = task /\ pc' = "done" /\ ret' = Raise("TransportError")
    /\ UNCHANGED <<cmd, opts, values, given, items, litems, cset, builder_env, todo,
                   addPatch, removePatch, calls, stale>>

\* wait_for_async_task returns once the task is no longer running
AWaitDone ==
    /\ pc = "a_wait"
    /\ task \in Terminal
    /\ pc' = ApplyNext(pc)
    /\ UNCHANGED <<cmd, opts, values, given, items, litems, cset, builder_env, todo,
                   addPatch, removePatch, calls, task, ret, stale>>

\* evaluate_task_status: the exit code of a task
evaluate_task_status(s) == IF s = "succeeded" THEN EX_OK ELSE EX_DATAERR

\* what run hands back to its caller, given what Apply.run returned
RunResult(c, r) == IF c = "promote" THEN ReturnNone ELSE r

AEvaluate ==
    /\ pc = "a_evaluate"
    /\ ret' = RunResult(cmd, Return(evaluate_task_status(task)))
    /\ pc' = "done"
    /\ UNCHANGED <<cmd, opts, values, given, items, litems, cset, builder_env, todo,
                   addPatch, removePatch, calls, task, stale>>

\* ------------------------------------------------------------------ Promote
PGetChangeset ==
    /\ pc = "p_get_changeset"
    /\ \E rec \in Changesets, ok \in BOOLEAN :
        /\ calls' = Append(calls, Call("get_changeset", "name", 0, EnvRecord.name, ok))
        /\ IF ok THEN cset' = rec /\ pc' = "p_check" /\ ret' = ret
           ELSE cset' = cset /\ pc' = "done" /\ ret' = Raise("NotFound")
    /\ UNCHANGED <<cmd, opts, values, given, items, litems, builder_env, todo,
                   addPatch, removePatch, task, stale>>

\* 'type' in cset and cset['type'] == constants.DELETION
IsDeletionChangeset(rec) == rec.has_type /\ rec.type = DELETION

PCheck ==
    /\ pc = "p_check"
    /\ IF IsDeletionChangeset(cset)
       THEN pc' = "done" /\ ret' = Return(EX_DATAERR)
       ELSE pc' = "a_get_changeset" /\ ret' = ret
    /\ UNCHANGED <<cmd, opts, values, given, items, litems, cset, builder_env, todo,
                   addPatch, removePatch, calls, task, stale>>

Next ==
    \/ Main
    \/ SetupParser
    \/ StoreItem
    \/ CheckOptions
    \/ CreateRun
    \/ CreateGetEnvironment
    \/ CreateCall
    \/ UStart
    \/ UGetChangeset
    \/ UUpdate
    \/ UBuilder
    \/ UBuildItem
    \/ USubmitItem
    \/ ULoopDone
    \/ UReturn
    \/ AGetChangeset
    \/ AApply
    \/ APoll
    \/ AWaitDone
    \/ AEvaluate
    \/ PGetChangeset
    \/ PCheck

Spec == Init /\ [][Next]_vars

\* ================================================================== claims
RECURSIVE CallsOf(_, _)
\* the calls of one API in a log, in order
CallsOf(log, api) ==
    IF log = <<>> THEN <<>>
    ELSE IF Head(log).api = api
         THEN <<Head(log)>> \o CallsOf(Tail(log), api)
         ELSE CallsOf(Tail(log), api)

Payloads(log, api) ==
    [i \in 1..Len(CallsOf(log, api)) |->
        [key |-> CallsOf(log, api)[i].key, val |-> CallsOf(log, api)[i].val]]

Issued(api) == \E i \in 1..Len(calls) : calls[i].api = api
Failed(api) == \E i \in 1..Len(calls) : calls[i].api = api /\ ~calls[i].ok

\* the references the command line gave for a direction: by name, then by
\* label, then by id, each in the order given
SuppliedRefs(a) ==
    SelectDest(given, Dest(a, "content_view")) \o SelectDest(given, Dest(a, "content_view_label"))
        \o SelectDest(given, Dest(a, "content_view_id"))

ExpectedPayloads(a, key) ==
    [i \in 1..Len(SuppliedRefs(a)) |->
        [key |-> key, val |-> ViewId([val |-> SuppliedRefs(a)[i]])]]

\* C1: promote on a changeset whose action type is deletion returns EX_DATAERR
\* and never issues the apply call.
C1_PromoteDeletionBlocked ==
    (cmd = "promote" /\ cset.action_type = DELETION) =>
        /\ ~Issued("apply")
        /\ (ret.kind \in {"return", "returnNone"}) => (ret = Return(EX_DATAERR))

C3_PromoteSameAsApply ==
    (cmd = "promote" /\ pc = "done" /\ cset.action_type = PROMOTION
        /\ ret.kind \in {"return", "returnNone"}) =>
        /\ Len(CallsOf(calls, "apply")) = 1
        /\ ret = Return(evaluate_task_status(task))

TwoKinds(a) ==
    \E i, j \in 1..Len(given) :
        /\ given[i].dest.action = a
        /\ given[j].dest.action = a
        /\ given[i].dest.ct # given[j].dest.ct

\* C4: an update command line with two or more reference kinds for the same
\* direction fails option validation and issues no network call.
C4_MutualExclusion ==
    (cmd = "update" /\ pc \notin {"setup", "parse"} /\ (TwoKinds("add") \/ TwoKinds("remove"))) =>
        /\ pc = "done"
        /\ ret = UsageError
        /\ calls = <<>>

C4_Witness ==
    /\ cmd = "update"
    /\ pc = "done"
    /\ opts.required
    /\ TwoKinds("remove")
    /\ ~TwoKinds("add")
    /\ ret = UsageError

\* C5: a successful update issues one add_content call per add item and one
\* remove_content call per remove item, by name, then by label, then by id,
\* each in the order given, with payloads {content_view_id: id} and {content_id: id}.
C5_OneCallPerItem ==
    (cmd = "update" /\ pc = "done" /\ ret = Return(EX_OK)) =>
        /\ Payloads(calls, "add_content") = ExpectedPayloads("add", "content_view_id")
        /\ Payloads(calls, "remove_content") = ExpectedPayloads("remove", "content_id")

C5_Witness ==
    /\ cmd = "update"
    /\ pc = "done"
    /\ ret = Return(EX_OK)
    /\ Len(CallsOf(calls, "add_content")) = 1
    /\ Len(CallsOf(calls, "remove_content")) = 1
    /\ \E i \in 1..Len(given) : given[i].dest.ct = "content_view_id"

\* C6: if a content-view reference of an update fails to resolve, the update
\* ends with a not-found error and no add_content or remove_content is issued.
C6_NoPartialPatch ==
    (cmd = "update" /\ Failed("get_content_view")) =>
        /\ ~Issued("add_content")
        /\ ~Issued("remove_content")
        /\ pc = "done"
        /\ ret = Raise("NotFound")

C6_Witness ==
    /\ cmd = "update"
    /\ Failed("get_content_view")
    /\ Len(addPatch) >= 1
    /\ pc = "done"

CreateRan == cmd = "create" /\ pc = "done" /\ ret.kind # "usage"
CreateCalls == CallsOf(calls, "create")
CreateCallRight ==
    /\ Len(CreateCalls) = 1
    /\ CreateCalls[1].key = (IF opts.type_deletion THEN DELETION ELSE PROMOTION)

\* C7 as stated: create run with both flags raises an option-value error and
\* issues no call; with at most one flag it issues exactly one create call, of
\* type deletion iff the deletion flag is set.
C7_Original ==
    CreateRan =>
        IF opts.type_promotion /\ opts.type_deletion
        THEN ret = Raise("OptionValueError") /\ calls = <<>>
        ELSE CreateCallRight

\* C7 as amended: create run with both flags raises an option-value error and
\* issues no call; with at most one flag and the environment lookup succeeding
\* it issues exactly one create call, of type deletion iff the deletion flag is
\* set; when the environment lookup fails it issues no create call.
C7_CreateType ==
    CreateRan =>
        IF opts.type_promotion /\ opts.type_deletion
        THEN ret = Raise("OptionValueError") /\ calls = <<>>
        ELSE IF Failed("get_environment")
             THEN CreateCalls = <<>> /\ ret = Raise("NotFound")
             ELSE CreateCallRight

C7_Witness ==
    /\ CreateRan
    /\ opts.type_deletion
    /\ ~opts.type_promotion
    /\ Len(CreateCalls) = 1
    /\ CreateCalls[1].key = DELETION

\* C8: every content-view lookup of an update is made against the changeset's
\* own environment for a deletion changeset and against its prior environment
\* for a promotion changeset.
C8_LookupEnvironment ==
    (cmd = "update") =>
        \A i \in 1..Len(calls) :
            (calls[i].api = "get_content_view") =>
                (calls[i].env = (IF cset.action_type = DELETION
                                 THEN EnvRecord.name ELSE EnvRecord.prior))

Rank(api) ==
    IF api = "update" THEN 1
    ELSE IF api = "add_content" THEN 2
    ELSE IF api = "remove_content" THEN 3
    ELSE 0

\* C9: update issues the update call, then the add_content calls, then the
\* remove_content calls; a failed call is the last call of the invocation (no
\* later call, no rollback), and a failed remove phase leaves the whole add
\* phase submitted.
C9_SequentialNoRollback ==
    (cmd = "update") =>
        /\ \A i, j \in 1..Len(calls) :
              (i < j /\ Rank(calls[i].api) > 0 /\ Rank(calls[j].api) > 0) =>
                  Rank(calls[i].api) <= Rank(calls[j].api)
        /\ Len(CallsOf(calls, "update")) <= 1
        /\ (Issued("add_content") \/ Issued("remove_content")) => Issued("update")
        /\ \A i \in 1..Len(calls) : ~calls[i].ok => (i = Len(calls) /\ pc = "done")
        /\ Issued("remove_content") =>
              (Payloads(calls, "add_content") = ExpectedPayloads("add", "content_view_id"))

C9_Witness ==
    /\ cmd = "update"
    /\ pc = "done"
    /\ Failed("remove_content")
    /\ Issued("add_content")
    /\ ret = Raise("ApiError")

RunStarted == cmd = "update" /\ pc \notin {"setup", "parse", "u_start"} /\ ret.kind # "usage"

SuppliedItems ==
    [d \in Dests |->
        [i \in 1..Len(SelectDest(given, d)) |->
            [key |-> ItemKey(d.ct), val |-> SelectDest(given, d)[i]]]]

====
